---- MODULE Spec2Model ----
(***************************************************************************)
(* The flaky-echo retry simulator of ai-web/backend: the /flaky-echo       *)
(* route (app/routers/echo.py) and the service behind it                   *)
(* (app/services/echo.py), which keeps one _FlakyState counter per         *)
(* "client_host:failures" key in the module-level dict _FLAKY_ATTEMPTS.    *)
(*                                                                         *)
(* The route is a plain `def`, so FastAPI runs it on worker threads; an    *)
(* evaluation is modelled statement by statement (labels are the line      *)
(* numbers of services/echo.py), and the specifications differ only in     *)
(* which interleavings of those statements the scheduler admits:           *)
(*   Spec        evaluations run one at a time;                            *)
(*   SpecKeyLock evaluations on the same key exclude each other;           *)
(*   SpecPar     any interleaving of the worker threads.                   *)
(***************************************************************************)
EXTENDS Integers, Sequences, FiniteSets, TLC

VARIABLES
    FLAKY_ATTEMPTS,  \* services/echo.py:24  dict: key string -> object reference
    heap,            \* the live _FlakyState objects: reference -> [attempts]
    pc,              \* per worker thread: the statement it executes next
    frame,           \* per worker thread: arguments and locals of the call
    calls,           \* history: requests received so far
    count,           \* history: per (client_host, failures), evaluations completed
    streak,          \* history: per (client_host, failures), failures completed
                     \*          since the last completed success
    done,            \* history: the evaluation just completed (until the next call)
    pre,             \* history: per thread, the counters as they stood at its call,
                     \*          kept for a call that started with no other in progress
    raced,           \* history: keys on which two evaluations have overlapped
    fn,              \* text helpers: the function under call, "" when none is
    raw,             \* text helpers: its argument, a sequence of characters
    res,             \* text helpers: what it returned
    passes,          \* text helpers: times it has been applied
    todo,            \* text helpers: the lines its loop has yet to take
    GEMINI_API_KEY,  \* services: os.environ["GEMINI_API_KEY"], <<>> when unset
    cache,           \* services: the lru_cache of each _configure_client
    stage,           \* services: where the call under way stands
    effects,         \* services: what the call under way has done outside
    reply,           \* services: what the model call did
    http,            \* services: what the route answered
    ncalls,          \* services: calls made so far
    asked,           \* services: the keys each _configure_client was called with
    configured       \* services: the keys each module gave genai.configure

\* The state of the flaky-echo service.
echoVars == <<FLAKY_ATTEMPTS, heap, pc, frame, calls, count, streak, done, pre, raced>>

\* The state of a call of a text helper (services/chatbot.py, services/gemini.py).
textVars == <<fn, raw, res, passes, todo>>

\* The state of a call of a service (services/chatbot.py, services/gemini.py)
\* and of its route.
serviceVars ==
    <<GEMINI_API_KEY, cache, stage, effects, reply, http, ncalls, asked, configured>>

vars == <<echoVars, textVars, serviceVars>>

----------------------------------------------------------------------------
(* Bounds of the model. *)

\* Largest `failures` query parameter a request carries.
MaxFailures == 2

\* Requests received in one behaviour when evaluations run one at a time.
MaxCalls == 5

\* Requests received in one behaviour when worker threads interleave.
MaxParCalls == 3

\* Largest `failures` of a request when worker threads interleave.
MaxParFailures == 1

(* Inputs. *)

Threads == {"w1", "w2"}

\* request.client is None for some transports; otherwise it has a host.
NoClient == "<None>"
Clients == {"a", NoClient}

Messages == {"hello", "hi"}

\* `failures: int = 1` is not validated by the route: negative values arrive too.
FailureValues == (-1) .. MaxFailures

ParFailureValues == 0 .. MaxParFailures

----------------------------------------------------------------------------
(* f"{client_host}:{failures}": the decimal text of an int, then the key. *)

Digit(d) ==
    CASE d = 0 -> "0" [] d = 1 -> "1" [] d = 2 -> "2" [] d = 3 -> "3"
      [] d = 4 -> "4" [] d = 5 -> "5" [] d = 6 -> "6" [] d = 7 -> "7"
      [] d = 8 -> "8" [] d = 9 -> "9"

RECURSIVE NatStr(_)
NatStr(n) == IF n < 10 THEN Digit(n) ELSE NatStr(n \div 10) \o Digit(n % 10)

IntStr(n) == IF n < 0 THEN "-" \o NatStr(-n) ELSE NatStr(n)

KeyOfNoThreshold(client_host, failures) == client_host

KeyOfNoSeparator(client_host, failures) == client_host \o IntStr(failures)

KeyOf(client_host, failures) == client_host \o ":" \o IntStr(failures)

\* routers/echo.py:38
ClientHost(client) == IF client # NoClient THEN client ELSE "unknown"

Hosts == {ClientHost(c) : c \in Clients}

\* The (identity, threshold) pairs a request can name.
Pairs == Hosts \X (FailureValues \cup ParFailureValues)

----------------------------------------------------------------------------
(* _FlakyState objects.  A reference is <<key, g>>: the object the dict    *)
(* holds under key is <<key, 0>>, and an object that line 55 has replaced  *)
(* in the dict while a call still holds it is <<key, g>> with g >= 1.      *)
(* NoRef is "no object"; an object that no dict entry and no local         *)
(* variable refers to is collected.                                        *)

\* services/echo.py:16-20
FlakyState == [attempts |-> 0]

NoRef == <<"", 0>>

EntryRef(key) == <<key, 0>>

\* A name for the object that leaves the dict entry of key.
DetachedRef(h, key) ==
    <<key, CHOOSE g \in 1 .. (Cardinality(DOMAIN h) + 1) :
              /\ <<key, g>> \notin DOMAIN h
              /\ \A g2 \in 1 .. (g - 1) : <<key, g2>> \in DOMAIN h>>

Live(map, fr) == {map[k] : k \in DOMAIN map} \cup {fr[t].state : t \in Threads}

Collect(h, map, fr) == [r \in (DOMAIN h) \cap Live(map, fr) |-> h[r]]

\* The value of every counter the dict holds.
Counters == [k \in DOMAIN FLAKY_ATTEMPTS |-> heap[FLAKY_ATTEMPTS[k]].attempts]

----------------------------------------------------------------------------
(* Exceptions, results and HTTP responses. *)

ServiceRaiseValueError == [kind |-> "raise", exc |-> "ValueError",
                           text |-> "Simulated transient failure"]

\* services/echo.py:52
ServiceRaise == [kind |-> "raise", exc |-> "EchoServiceError",
                 text |-> "Simulated transient failure"]

\* services/echo.py:57
ServiceReturn(message, attempts) ==
    [kind |-> "return", value |-> [msg |-> message, attempts |-> attempts]]

HandlerResponse500(result) ==
    IF result.kind = "return"
    THEN [status |-> 200, body |-> result.value]
    ELSE [status |-> 500, detail |-> "Internal Server Error"]

\* routers/echo.py:40-43: EchoServiceError becomes HTTPException(503, str(exc));
\* any other exception escapes the handler and the framework answers 500.
HandlerResponse(result) ==
    IF result.kind = "return"
    THEN [status |-> 200, body |-> result.value]
    ELSE IF result.exc = "EchoServiceError"
         THEN [status |-> 503, detail |-> result.text]
         ELSE [status |-> 500, detail |-> "Internal Server Error"]

----------------------------------------------------------------------------
(* State after import of the service module. *)

IdleFrame == [message |-> "", client_host |-> "", failures |-> 0, key |-> "",
              state |-> NoRef, loaded |-> 0, attempts |-> 0]

NoSnapshot == [taken |-> FALSE, counters |-> <<>>]

NoDone == [pair |-> <<"", 0>>, message |-> "", n |-> 0, prior |-> 0,
           before |-> NoSnapshot,
           result |-> [kind |-> "none"], response |-> [status |-> 0]]

EchoInit ==
    /\ FLAKY_ATTEMPTS = <<>>
    /\ heap = <<>>
    /\ pc = [t \in Threads |-> "idle"]
    /\ frame = [t \in Threads |-> IdleFrame]
    /\ calls = 0
    /\ count = [p \in Pairs |-> 0]
    /\ streak = [p \in Pairs |-> 0]
    /\ done = NoDone
    /\ pre = [t \in Threads |-> NoSnapshot]
    /\ raced = {}

\* No text helper is under call.
TextIdle ==
    /\ fn = ""
    /\ raw = <<>>
    /\ res = <<>>
    /\ passes = 0
    /\ todo = <<>>

Services == {"send_chat_message", "generate_lesson_outline"}

NoReply == [kind |-> "none"]

NoResponse == [status |-> 0]

\* No service has been called: nothing is cached, nothing was done.
ServiceIdle ==
    /\ GEMINI_API_KEY = <<>>
    /\ cache = [s \in Services |-> <<>>]
    /\ stage = ""
    /\ effects = <<>>
    /\ reply = NoReply
    /\ http = NoResponse
    /\ ncalls = 0
    /\ asked = [s \in Services |-> <<>>]
    /\ configured = [s \in Services |-> <<>>]

Init == EchoInit /\ TextIdle /\ ServiceIdle

PairOf(t) == <<frame[t].client_host, frame[t].failures>>

Busy(t) == pc[t] # "idle"

----------------------------------------------------------------------------
(* The expressions of get_flaky_echo_payload that read or build a value. *)

InFailureWindowAbs(attempts, failures) ==
    attempts < (IF failures < 0 THEN -failures ELSE failures)

InFailureWindowLe(attempts, failures) == attempts <= failures

\* services/echo.py:50  state.attempts < failures
InFailureWindow(attempts, failures) == attempts < failures

IncrementedBy2(attempts) == attempts + 2

IncrementedBy0(attempts) == attempts

\* services/echo.py:51  state.attempts += 1
Incremented(attempts) == attempts + 1

TotalAttemptsNoSuccess(attempts) == attempts

\* services/echo.py:54  attempts = state.attempts + 1
TotalAttempts(attempts) == attempts + 1

----------------------------------------------------------------------------
(* The history a completed evaluation leaves. *)

Completed(t, result) ==
    [pair |-> PairOf(t), message |-> frame[t].message,
     n |-> count[PairOf(t)] + 1, prior |-> streak[PairOf(t)],
     before |-> pre[t],
     result |-> result, response |-> HandlerResponse(result)]

----------------------------------------------------------------------------
(* One request to POST /flaky-echo, statement by statement. *)

\* routers/echo.py:30-41 and services/echo.py:47: the handler picks the
\* client host, calls the service, and the service builds the key.
Call(t, client, message, failures) ==
    /\ pc[t] = "idle"
    /\ LET key == KeyOf(ClientHost(client), failures) IN
        /\ frame' = [frame EXCEPT ![t] =
                        [IdleFrame EXCEPT !.message = message,
                                          !.client_host = ClientHost(client),
                                          !.failures = failures,
                                          !.key = key]]
        /\ raced' = IF \E u \in Threads \ {t} : Busy(u) /\ frame[u].key = key
                    THEN raced \cup {key} ELSE raced
    /\ pc' = [pc EXCEPT ![t] = "L48"]
    /\ calls' = calls + 1
    /\ pre' = [pre EXCEPT ![t] =
                    IF \A u \in Threads \ {t} : ~Busy(u)
                    THEN [taken |-> TRUE, counters |-> Counters]
                    ELSE NoSnapshot]
    /\ done' = NoDone
    /\ UNCHANGED <<FLAKY_ATTEMPTS, heap, count, streak>>
    /\ UNCHANGED <<textVars, serviceVars>>

\* services/echo.py:48  state = _FLAKY_ATTEMPTS.setdefault(key, _FlakyState())
Setdefault(t) ==
    /\ pc[t] = "L48"
    /\ LET key == frame[t].key IN
        IF key \in DOMAIN FLAKY_ATTEMPTS
        THEN /\ frame' = [frame EXCEPT ![t].state = FLAKY_ATTEMPTS[key]]
             /\ UNCHANGED <<FLAKY_ATTEMPTS, heap>>
             /\ UNCHANGED <<textVars, serviceVars>>
        ELSE LET r == EntryRef(key) IN
             /\ heap' = (r :> FlakyState) @@ heap
             /\ FLAKY_ATTEMPTS' = (key :> r) @@ FLAKY_ATTEMPTS
             /\ frame' = [frame EXCEPT ![t].state = r]
    /\ pc' = [pc EXCEPT ![t] = "L50"]
    /\ UNCHANGED <<calls, count, streak, done, pre, raced>>
    /\ UNCHANGED <<textVars, serviceVars>>

\* services/echo.py:50  if state.attempts < failures:
Compare(t) ==
    /\ pc[t] = "L50"
    /\ pc' = [pc EXCEPT ![t] =
                IF InFailureWindow(heap[frame[t].state].attempts, frame[t].failures)
                THEN "L51" ELSE "L54"]
    /\ UNCHANGED <<FLAKY_ATTEMPTS, heap, frame, calls, count, streak, done, pre, raced>>
    /\ UNCHANGED <<textVars, serviceVars>>

\* services/echo.py:51  state.attempts += 1, the read of the attribute
Load(t) ==
    /\ pc[t] = "L51"
    /\ frame' = [frame EXCEPT ![t].loaded = heap[frame[t].state].attempts]
    /\ pc' = [pc EXCEPT ![t] = "L51w"]
    /\ UNCHANGED <<FLAKY_ATTEMPTS, heap, calls, count, streak, done, pre, raced>>
    /\ UNCHANGED <<textVars, serviceVars>>

\* services/echo.py:51  state.attempts += 1, the write of the attribute
Store(t) ==
    /\ pc[t] = "L51w"
    /\ heap' = [heap EXCEPT ![frame[t].state].attempts = Incremented(frame[t].loaded)]
    /\ pc' = [pc EXCEPT ![t] = "L52"]
    /\ UNCHANGED <<FLAKY_ATTEMPTS, frame, calls, count, streak, done, pre, raced>>
    /\ UNCHANGED <<textVars, serviceVars>>

\* services/echo.py:52 and routers/echo.py:42-43: the service raises, the
\* handler answers; the call's locals die.
Raise(t) ==
    /\ pc[t] = "L52"
    /\ done' = Completed(t, ServiceRaise)
    /\ count' = [count EXCEPT ![PairOf(t)] = @ + 1]
    /\ streak' = [streak EXCEPT ![PairOf(t)] = @ + 1]
    /\ frame' = [frame EXCEPT ![t] = IdleFrame]
    /\ heap' = Collect(heap, FLAKY_ATTEMPTS, frame')
    /\ pc' = [pc EXCEPT ![t] = "idle"]
    /\ pre' = [pre EXCEPT ![t] = NoSnapshot]
    /\ UNCHANGED <<FLAKY_ATTEMPTS, calls, raced>>
    /\ UNCHANGED <<textVars, serviceVars>>

\* services/echo.py:54  attempts = state.attempts + 1
ReadAttempts(t) ==
    /\ pc[t] = "L54"
    /\ frame' = [frame EXCEPT ![t].attempts =
                    TotalAttempts(heap[frame[t].state].attempts)]
    /\ pc' = [pc EXCEPT ![t] = "L55"]
    /\ UNCHANGED <<FLAKY_ATTEMPTS, heap, calls, count, streak, done, pre, raced>>
    /\ UNCHANGED <<textVars, serviceVars>>

ResetNothing(t) ==
    /\ pc[t] = "L55"
    /\ pc' = [pc EXCEPT ![t] = "L57"]
    /\ UNCHANGED <<FLAKY_ATTEMPTS, heap, frame, calls, count, streak, done, pre, raced>>
    /\ UNCHANGED <<textVars, serviceVars>>

ResetPop(t) ==
    /\ pc[t] = "L55"
    /\ FLAKY_ATTEMPTS' = [k \in DOMAIN FLAKY_ATTEMPTS \ {frame[t].key} |->
                             FLAKY_ATTEMPTS[k]]
    /\ heap' = Collect(heap, FLAKY_ATTEMPTS', frame)
    /\ pc' = [pc EXCEPT ![t] = "L57"]
    /\ UNCHANGED <<frame, calls, count, streak, done, pre, raced>>
    /\ UNCHANGED <<textVars, serviceVars>>

\* services/echo.py:55  _FLAKY_ATTEMPTS[key] = _FlakyState()
Reset(t) ==
    /\ pc[t] = "L55"
    /\ LET key == frame[t].key
           old == FLAKY_ATTEMPTS[key]
           moved == DetachedRef(heap, key)
           kept == [r \in (DOMAIN heap \ {old}) \cup {moved} |->
                      IF r = moved THEN heap[old] ELSE heap[r]]
       IN
        /\ frame' = [u \in Threads |->
                        IF frame[u].state = old
                        THEN [frame[u] EXCEPT !.state = moved] ELSE frame[u]]
        /\ FLAKY_ATTEMPTS' = (key :> EntryRef(key)) @@ FLAKY_ATTEMPTS
        /\ heap' = Collect((EntryRef(key) :> FlakyState) @@ kept,
                           FLAKY_ATTEMPTS', frame')
    /\ pc' = [pc EXCEPT ![t] = "L57"]
    /\ UNCHANGED <<calls, count, streak, done, pre, raced>>
    /\ UNCHANGED <<textVars, serviceVars>>

\* services/echo.py:57 and routers/echo.py:41: the service returns, the
\* handler passes the payload on; the call's locals die.
Return(t) ==
    /\ pc[t] = "L57"
    /\ done' = Completed(t, ServiceReturn(frame[t].message, frame[t].attempts))
    /\ count' = [count EXCEPT ![PairOf(t)] = @ + 1]
    /\ streak' = [streak EXCEPT ![PairOf(t)] = 0]
    /\ frame' = [frame EXCEPT ![t] = IdleFrame]
    /\ heap' = Collect(heap, FLAKY_ATTEMPTS, frame')
    /\ pc' = [pc EXCEPT ![t] = "idle"]
    /\ pre' = [pre EXCEPT ![t] = NoSnapshot]
    /\ UNCHANGED <<FLAKY_ATTEMPTS, calls, raced>>
    /\ UNCHANGED <<textVars, serviceVars>>

\* A statement of the service body.
Step(t) ==
    \/ Setdefault(t)
    \/ Compare(t)
    \/ Load(t)
    \/ Store(t)
    \/ Raise(t)
    \/ ReadAttempts(t)
    \/ Reset(t)
    \/ Return(t)

----------------------------------------------------------------------------
(* Schedulers. *)

\* No other evaluation is in progress.  A call that starts alone stays alone
\* until it ends, so it is the call that is gated, not its statements.
Alone(t) == \A u \in Threads \ {t} : ~Busy(u)

\* No other evaluation on this key is in progress (a lock scoped to the key,
\* taken at the call and released at the raise or return).
KeyFree(t, key) == \A u \in Threads \ {t} : Busy(u) => frame[u].key # key

Next ==
    \E t \in Threads :
        \/ /\ calls < MaxCalls
           /\ Alone(t)
           /\ \E c \in Clients, m \in Messages, f \in FailureValues : Call(t, c, m, f)
        \/ Step(t)

NextKeyLock ==
    \E t \in Threads :
        \/ /\ calls < MaxParCalls
           /\ \E c \in Clients, m \in Messages, f \in ParFailureValues :
                 KeyFree(t, KeyOf(ClientHost(c), f)) /\ Call(t, c, m, f)
        \/ Step(t)

NextPar ==
    \E t \in Threads :
        \/ /\ calls < MaxParCalls
           /\ \E c \in Clients, m \in Messages, f \in ParFailureValues : Call(t, c, m, f)
        \/ Step(t)

Spec == Init /\ [][Next]_vars

SpecKeyLock == Init /\ [][NextKeyLock]_vars

SpecPar == Init /\ [][NextPar]_vars

----------------------------------------------------------------------------
(* Vocabulary of the properties. *)

\* The stored attempts of the counter of (identity, threshold); -1 when the
\* dict holds no counter for it.
Attempts(p) ==
    LET key == KeyOf(p[1], p[2]) IN
    IF key \in DOMAIN FLAKY_ATTEMPTS THEN heap[FLAKY_ATTEMPTS[key]].attempts ELSE -1

\* An evaluation of (identity, threshold) is in progress.
Evaluating(p) == \E t \in Threads : Busy(t) /\ PairOf(t) = p

Failed == done.result.kind = "raise"

Succeeded == done.result.kind = "return"

\* The threshold of the evaluation just completed.
F == done.pair[2]

----------------------------------------------------------------------------
\* C1: with evaluations run one at a time and a threshold F >= 0, the first F
\* evaluations of a key never seen before each raise EchoServiceError and the
\* (F+1)-th returns {msg: m, attempts: F+1}, m being the message of that
\* call; for F = 0 the first evaluation already returns with attempts = 1.
C1_FirstCycle ==
    (F >= 0 /\ done.n >= 1 /\ done.n <= F + 1) =>
        /\ done.n <= F =>
              /\ Failed
              /\ done.result.exc = "EchoServiceError"
        /\ done.n = F + 1 =>
              done.result = [kind |-> "return",
                             value |-> [msg |-> done.message, attempts |-> F + 1]]

\* The third evaluation of ("a", 2) returned, as in evaluate("studentA", "hello", 2).
C1_Witness ==
    /\ done.pair = <<"a", 2>>
    /\ done.message = "hello"
    /\ done.n = 3
    /\ Succeeded

\* C2: after a success the cycle restarts: with evaluations run one at a time
\* the n-th evaluation of a key with threshold F >= 0 succeeds exactly when n
\* is a multiple of F + 1, in every cycle, and each success reports
\* attempts = F + 1; so with F > 0 the evaluation after a success fails.
C2_Periodic ==
    (F >= 0 /\ done.n >= 1) =>
        /\ Succeeded <=> done.n % (F + 1) = 0
        /\ Failed <=> done.n % (F + 1) # 0
        /\ Succeeded => done.result.value.attempts = F + 1

\* The second cycle of a key with threshold 1 ended with a success.
C2_Witness ==
    /\ F = 1
    /\ done.n = 4
    /\ done.prior = 1
    /\ Succeeded
    /\ done.result.value.attempts = 2

\* C3: a statement of an evaluation of key (id, F) leaves the counter of every
\* other (identity, threshold) pair as it was, present or absent: the same
\* identity with another threshold and another identity with the same
\* threshold keep their own countdown.
C3_Frame ==
    [][\A p \in Pairs :
          (~Evaluating(p) /\ ~Evaluating(p)') => (Attempts(p)' = Attempts(p))]_vars

\* ("a", 1) has just been exhausted and reset while ("a", 2) and
\* ("unknown", 1) are each in the middle of their own countdown.
C3_Witness ==
    /\ done.pair = <<"a", 1>>
    /\ Succeeded
    /\ Attempts(<<"a", 1>>) = 0
    /\ Attempts(<<"a", 2>>) = 2
    /\ Attempts(<<"unknown", 1>>) = 1

\* The counters of thresholds F >= 0 stay within 0 .. F.
C4_Range ==
    \A p \in Pairs : (p[2] >= 0 /\ Attempts(p) # -1) =>
        (0 <= Attempts(p) /\ Attempts(p) <= p[2])

\* After the k-th failure in a row the counter is k; after a success it is 0.
C4_AfterCall ==
    (F >= 0 /\ done.n >= 1) =>
        /\ Failed => Attempts(done.pair) = done.prior + 1
        /\ Succeeded => Attempts(done.pair) = 0

\* A counter changes only by growing by one or by falling back to zero.
C4_Change ==
    \A p \in Pairs : (p[2] >= 0 /\ Attempts(p) # -1) =>
        \/ Attempts(p)' = Attempts(p)
        \/ Attempts(p)' = Attempts(p) + 1
        \/ Attempts(p)' = 0 /\ \E t \in Threads : pc[t] = "L55" /\ pc'[t] = "L57"

\* C4: with evaluations run one at a time and thresholds F >= 0, the stored
\* attempts of key (id, F) is always within 0 .. F; it grows by exactly 1 on
\* each failing evaluation, never decreases during a failure streak, and is
\* exactly 0 right after every successful evaluation.
C4_Counter == [](C4_Range /\ C4_AfterCall) /\ [][C4_Change]_vars

\* The second failure in a row of ("a", 2) left its counter at 2.
C4_Witness ==
    /\ done.pair = <<"a", 2>>
    /\ Failed
    /\ done.prior = 1
    /\ Attempts(<<"a", 2>>) = 2

\* The evaluation just completed breaks the sequential guarantee: a success
\* that was not preceded by exactly F failures of its key, or that does not
\* report attempts = F + 1, or a failure that follows F or more failures.
Broken ==
    /\ F >= 0
    /\ done.n >= 1
    /\ \/ Succeeded /\ done.prior # F
       \/ Succeeded /\ done.result.value.attempts # F + 1
       \/ Failed /\ done.prior >= F

\* C5: when worker threads interleave freely the sequential guarantee is
\* lost, and it is lost only by a race: an evaluation that breaks it (a
\* success after a number of failures other than F, or reporting attempts
\* other than F + 1, or a failure beyond the F-th) is on a key on which two
\* evaluations have overlapped.  The witness is such a broken evaluation.
C5_BrokenOnlyByRace == Broken => (KeyOf(done.pair[1], done.pair[2]) \in raced)

\* A success of a key with threshold 1 after two failures, reporting
\* attempts = 2: an increment was lost.
C5_Witness ==
    /\ F = 1
    /\ Succeeded
    /\ done.prior = 2
    /\ done.result.value.attempts = 2
    /\ KeyOf(done.pair[1], done.pair[2]) \in raced

\* C6: when evaluations of the same key exclude each other and evaluations
\* of different keys interleave freely, the n-th evaluation of a key with
\* threshold F >= 0 succeeds exactly when n is a multiple of F + 1, after
\* exactly F failures, and reports attempts = F + 1.
C6_KeyLockSuffices ==
    (F >= 0 /\ done.n >= 1) =>
        /\ Succeeded <=> done.n % (F + 1) = 0
        /\ Succeeded => (done.prior = F /\ done.result.value.attempts = F + 1)
        /\ Failed => done.prior < F

\* A key with threshold 1 succeeds on its second evaluation while an
\* evaluation of another key is between its statements.
C6_Witness ==
    /\ F = 1
    /\ done.n = 2
    /\ Succeeded
    /\ \E t \in Threads :
          /\ pc[t] \in {"L50", "L51", "L51w", "L52", "L54", "L55", "L57"}
          /\ frame[t].key # KeyOf(done.pair[1], done.pair[2])

\* C7: with evaluations run one at a time a key with threshold F >= 0 never
\* fails more than F times in a row: from any state a success comes after
\* at most F further failures, that is F minus the stored attempts of them.
C7_NoEndlessFailure ==
    \A p \in Pairs : p[2] >= 0 =>
        /\ streak[p] <= p[2]
        /\ (~Evaluating(p) /\ Attempts(p) # -1) => Attempts(p) = streak[p]

\* A key with threshold 2 has failed twice in a row: the next evaluation succeeds.
C7_Witness ==
    /\ streak[<<"unknown", 2>>] = 2
    /\ Attempts(<<"unknown", 2>>) = 2
    /\ \A t \in Threads : ~Busy(t)

\* The counters after a failing evaluation of key, given those before it.
PlusOne(counters, key) ==
    [k \in DOMAIN counters \cup {key} |->
        IF k = key
        THEN (IF key \in DOMAIN counters THEN counters[key] + 1 ELSE 1)
        ELSE counters[k]]

\* C8: a failing evaluation carries no payload and changes nothing but its
\* own key's counter, to which it adds exactly 1 (a counter not yet created
\* counting as 0); a succeeding evaluation returns the caller's message
\* unchanged with the attempt count (the failures of the streak plus this
\* call); EchoServiceError is the only error signalled.
C8_Outcomes ==
    /\ Failed =>
          /\ done.result = [kind |-> "raise", exc |-> "EchoServiceError",
                            text |-> "Simulated transient failure"]
          /\ done.before.taken =>
                Counters = PlusOne(done.before.counters,
                                   KeyOf(done.pair[1], done.pair[2]))
    /\ Succeeded =>
          /\ DOMAIN done.result.value = {"msg", "attempts"}
          /\ done.result.value.msg = done.message
          /\ done.result.value.attempts = done.prior + 1

\* A failing evaluation of a key seen before, with other keys in the dict.
C8_Witness ==
    /\ Failed
    /\ done.before.taken
    /\ KeyOf(done.pair[1], done.pair[2]) \in DOMAIN done.before.counters
    /\ Cardinality(DOMAIN Counters) >= 3
    /\ \E k \in DOMAIN Counters : Counters[k] = 2

\* C9: the handler answers a failure of the service with status 503 and the
\* failure's message as detail, and a success with the service's payload
\* unchanged; so the evaluations of a fresh key with threshold F >= 0 are
\* answered by F responses 503 and then one 200 with msg and attempts = F + 1.
C9_Responses ==
    /\ Failed => done.response = [status |-> 503, detail |-> done.result.text]
    /\ Succeeded => done.response = [status |-> 200, body |-> done.result.value]
    /\ (F >= 0 /\ done.n >= 1 /\ done.n <= F) =>
          done.response = [status |-> 503, detail |-> "Simulated transient failure"]
    /\ (F >= 0 /\ done.n = F + 1) =>
          done.response = [status |-> 200,
                           body |-> [msg |-> done.message, attempts |-> F + 1]]

\* The default query failures = 1: the retry is answered 200 with attempts = 2.
C9_Witness ==
    /\ F = 1
    /\ done.n = 2
    /\ done.response.status = 200
    /\ done.response.body = [msg |-> "hi", attempts |-> 2]

\* The pairs whose evaluation has reached the dict (past line 48).
Observed ==
    {p \in Pairs : count[p] > 0}
        \cup {PairOf(t) : t \in {u \in Threads : pc[u] \notin {"idle", "L48"}}}

\* C10: the dict starts empty and its key set is exactly the keys of the
\* (identity, threshold) pairs evaluated so far: an evaluation, failing or
\* succeeding, with F = 0 too, leaves its key present, and none is removed.
C10_KeySet ==
    /\ DOMAIN FLAKY_ATTEMPTS = {KeyOf(p[1], p[2]) : p \in Observed}
    /\ calls = 0 => DOMAIN FLAKY_ATTEMPTS = {}

\* After successes with threshold 0 and a failure with threshold 2, no call
\* in progress: three keys are in the dict.
C10_Witness ==
    /\ \A t \in Threads : ~Busy(t)
    /\ count[<<"a", 0>>] = 2
    /\ count[<<"unknown", 2>>] = 1
    /\ count[<<"a", -1>>] = 1
    /\ DOMAIN FLAKY_ATTEMPTS = {"a:0", "unknown:2", "a:-1"}


\* ---------------------------------------------------------------------------
\* Text: a Python str is a sequence of characters, each a one-character
\* string; a character outside ASCII is named by its code point.
\* ---------------------------------------------------------------------------

Upper == {"A", "B", "C", "D", "E", "F", "G", "H", "I", "J", "K", "L", "M",
          "N", "O", "P", "Q", "R", "S", "T", "U", "V", "W", "X", "Y", "Z"}

Lower == {"a", "b", "c", "d", "e", "f", "g", "h", "i", "j", "k", "l", "m",
          "n", "o", "p", "q", "r", "s", "t", "u", "v", "w", "x", "y", "z"}

\* What str.strip() with no argument removes: the characters str.isspace()
\* holds of, the separators U+001C to U+001F among them.
Whitespace == {" ", "\t", "\n", "\r", "\f", "U+000B", "U+001C", "U+001D",
               "U+001E", "U+001F", "U+0085", "U+00A0", "U+2028", "U+2029"}

\* The argument of cleaned.strip('*-_').
Cosmetic == {"*", "-", "_"}

SetMin(S) == CHOOSE i \in S : \A j \in S : i <= j

SetMax(S) == CHOOSE i \in S : \A j \in S : j <= i

\* s.lstrip(chars)
LStripChars(s, chars) ==
    LET keep == {i \in 1 .. Len(s) : s[i] \notin chars}
    IN  IF keep = {} THEN <<>> ELSE SubSeq(s, SetMin(keep), Len(s))

\* s.strip(chars)
StripChars(s, chars) ==
    LET keep == {i \in 1 .. Len(s) : s[i] \notin chars}
    IN  IF keep = {} THEN <<>> ELSE SubSeq(s, SetMin(keep), SetMax(keep))

\* s.strip()
Strip(s) == StripChars(s, Whitespace)

\* The position of the first character of s that is in chars, 0 when none is.
Find(s, chars) ==
    LET at == {i \in 1 .. Len(s) : s[i] \in chars}
    IN  IF at = {} THEN 0 ELSE SetMin(at)

\* s.split('\n'): the pieces between newlines, empty pieces kept.
RECURSIVE SplitNewline(_)
SplitNewline(s) ==
    LET i == Find(s, {"\n"})
    IN  IF i = 0 THEN <<s>>
        ELSE <<SubSeq(s, 1, i - 1)>> \o SplitNewline(SubSeq(s, i + 1, Len(s)))

\* '\n'.join(lines)
RECURSIVE JoinNewline(_)
JoinNewline(lines) ==
    IF lines = <<>> THEN <<>>
    ELSE IF Len(lines) = 1 THEN lines[1]
    ELSE lines[1] \o <<"\n">> \o JoinNewline(Tail(lines))

\* The length of the run of newlines s starts with.
LeadingNewlines(s) ==
    LET other == {i \in 1 .. Len(s) : s[i] # "\n"}
    IN  IF other = {} THEN Len(s) ELSE SetMin(other) - 1

\* re.sub(r'\n{3,}', '\n\n', s): each maximal run of three or more newlines
\* becomes two.
RECURSIVE CollapseNewlines(_)
CollapseNewlines(s) ==
    IF s = <<>> THEN <<>>
    ELSE IF Head(s) = "\n"
    THEN LET run == LeadingNewlines(s)
         IN  (IF run >= 3 THEN <<"\n", "\n">> ELSE SubSeq(s, 1, run))
                 \o CollapseNewlines(SubSeq(s, run + 1, Len(s)))
    ELSE <<Head(s)>> \o CollapseNewlines(Tail(s))

\* re.sub(mark + '([class])', mark + r' \1', s): scanning from the left, a
\* mark directly followed by a character of the class gets a space between
\* them, and the scan resumes after that character.
RECURSIVE SubSpaceAfter(_, _, _)
SubSpaceAfter(s, mark, class) ==
    IF s = <<>> THEN <<>>
    ELSE IF Len(s) >= 2 /\ s[1] = mark /\ s[2] \in class
    THEN <<mark, " ", s[2]>> \o SubSpaceAfter(SubSeq(s, 3, Len(s)), mark, class)
    ELSE <<Head(s)>> \o SubSpaceAfter(Tail(s), mark, class)


----------------------------------------------------------------------------
(* _clean_response_text, services/chatbot.py lines 87-125, one definition per
   statement.                                                              *)

\* A variant of line 104 that strips nothing.
KeepWhitespace(s) == s

\* line 104: cleaned = raw_text.strip()
StripWhitespace(s) == Strip(s)

\* A variant of line 107 that substitutes nothing.
KeepBlankLines(s) == s

\* line 107: cleaned = re.sub(r'\n{3,}', '\n\n', cleaned)
CollapseBlankLines(s) == CollapseNewlines(s)

\* lines 110-111: every line of cleaned.split('\n') stripped, joined by '\n'
TrimLines(s) ==
    LET lines == SplitNewline(s)
    IN  JoinNewline([i \in 1 .. Len(lines) |-> Strip(lines[i])])

\* line 119: cleaned = re.sub(r'\.([A-Z])', r'. \1', cleaned)
SpacePeriods(s) == SubSpaceAfter(s, ".", Upper)

\* A variant of line 120 that takes the class of line 119.
SpaceCommasUpperOnly(s) == SubSpaceAfter(s, ",", Upper)

\* line 120: cleaned = re.sub(r',([A-Za-z])', r', \1', cleaned)
SpaceCommas(s) == SubSpaceAfter(s, ",", Upper \cup Lower)

\* A variant of line 123 that strips the front only.
StripCosmeticLeft(s) == LStripChars(s, Cosmetic)

\* line 123: cleaned = cleaned.strip('*-_')
StripCosmetic(s) == StripChars(s, Cosmetic)

_clean_response_text(raw_text) ==
    IF raw_text = <<>> THEN <<>>
    ELSE StripCosmetic(SpaceCommas(SpacePeriods(TrimLines(
             CollapseBlankLines(StripWhitespace(raw_text))))))

----------------------------------------------------------------------------
(* Calls of _clean_response_text on every text up to a length, and on what
   it returned.                                                            *)

MaxTextLen == 4

MaxPasses == 2

\* One character of each kind the function tells apart: a lower-case and an
\* upper-case letter, a space, a newline, a period, a comma, and two of the
\* characters of strip('*-_').
TextChars == {"a", "B", " ", "\n", ".", ",", "*", "_"}

Texts(chars, n) == UNION {[1 .. k -> chars] : k \in 0 .. n}

MaxWordLen == 2

MaxNewlines == 4

\* The characters of a word: no whitespace.
WordChars == {"a", "B", ".", ",", "*"}

Words == Texts(WordChars, MaxWordLen) \ {<<>>}

Newlines(k) == [i \in 1 .. k |-> "\n"]

\* Two words with a run of newlines between them.
Paragraphs == {a \o Newlines(k) \o b : a \in Words, b \in Words, k \in 1 .. MaxNewlines}

MaxBlankLen == 6

\* Lines that hold letters or nothing but spaces.
BlankLineTexts == Texts({"a", " ", "\n"}, MaxBlankLen)

\* "a\n \n \nb", "* item" and "text -".
ExampleTexts ==
    {<<"a", "\n", " ", "\n", " ", "\n", "b">>,
     <<"*", " ", "i", "t", "e", "m">>,
     <<"t", "e", "x", "t", " ", "-">>}

CleanInputs ==
    Texts(TextChars, MaxTextLen) \cup Paragraphs \cup BlankLineTexts
        \cup ExampleTexts

CleanInit ==
    /\ EchoInit
    /\ ServiceIdle
    /\ fn = "_clean_response_text"
    /\ raw \in CleanInputs
    /\ res = <<>>
    /\ passes = 0
    /\ todo = <<>>

\* The call _clean_response_text(raw) returns.
Clean ==
    /\ fn = "_clean_response_text"
    /\ passes = 0
    /\ res' = _clean_response_text(raw)
    /\ passes' = 1
    /\ UNCHANGED <<fn, raw, todo>>
    /\ UNCHANGED <<echoVars, serviceVars>>

\* The function is called again on what it returned.
CleanAgain ==
    /\ fn = "_clean_response_text"
    /\ passes >= 1
    /\ passes < MaxPasses
    /\ raw' = res
    /\ res' = _clean_response_text(res)
    /\ passes' = passes + 1
    /\ UNCHANGED <<fn, todo>>
    /\ UNCHANGED <<echoVars, serviceVars>>

NextClean == Clean \/ CleanAgain

SpecClean == CleanInit /\ [][NextClean]_vars


----------------------------------------------------------------------------
(* Claims about _clean_response_text. *)

Cleaned == fn = "_clean_response_text" /\ passes >= 1

\* C11: _clean_response_text is idempotent: called on what it returned for
\* any text of letters, spaces, newlines, periods, commas, '*', '-' and '_',
\* it returns that text again.
C11_Idempotent ==
    (fn = "_clean_response_text" /\ passes = 2) => res = raw


\* Position i of s holds mark and position i + 1 a character of class.
Adjacent(s, i, mark, class) ==
    i < Len(s) /\ s[i] = mark /\ s[i + 1] \in class

\* The positions of s after which lines 119-120 put a space.
SpacePoints(s) ==
    {i \in 1 .. Len(s) : \/ Adjacent(s, i, ".", Upper)
                         \/ Adjacent(s, i, ",", Upper \cup Lower)}

\* A text none of the other statements changes: no whitespace, none of '*-_'.
PlainText(s) == \A i \in 1 .. Len(s) : s[i] \notin Whitespace \cup Cosmetic

NotSpace(c) == c # " "

\* C12: the result has a space after every period that was directly followed
\* by an upper-case letter and after every comma that was directly followed by
\* a letter of either case, exactly one and nowhere else, so that it holds no
\* period directly before an upper-case letter and no comma directly before a
\* letter.
C12_Spacing ==
    Cleaned =>
        /\ SpacePoints(res) = {}
        /\ PlainText(raw) =>
              /\ SelectSeq(res, NotSpace) = raw
              /\ Len(res) = Len(raw) + Cardinality(SpacePoints(raw))

C12_Witness ==
    /\ Cleaned
    /\ raw = <<".", "B", ",", "a">>
    /\ res = <<".", " ", "B", ",", " ", "a">>

\* C12 as stated: the result holds no period and no comma directly before a
\* letter of either case.
C12_AsStated ==
    Cleaned =>
        \A i \in 1 .. Len(res) :
            /\ ~Adjacent(res, i, ".", Upper \cup Lower)
            /\ ~Adjacent(res, i, ",", Upper \cup Lower)


\* The positions of the newlines of s.
NewlinesOf(s) == {i \in 1 .. Len(s) : s[i] = "\n"}

\* s is a word, a run of newlines and a word; the words hold no whitespace.
TwoWords(s) ==
    /\ NewlinesOf(s) # {}
    /\ LET i == SetMin(NewlinesOf(s))
           j == SetMax(NewlinesOf(s))
       IN  /\ 1 < i
           /\ j < Len(s)
           /\ \A m \in 1 .. Len(s) :
                 IF m \in i .. j THEN s[m] = "\n" ELSE s[m] \notin Whitespace

FirstWord(s) == SubSeq(s, 1, SetMin(NewlinesOf(s)) - 1)

SecondWord(s) == SubSeq(s, SetMax(NewlinesOf(s)) + 1, Len(s))

\* The two words of s with min(k, 2) newlines between them, k being the
\* number of newlines between them in s.
Collapsed(s) ==
    LET k == Cardinality(NewlinesOf(s))
    IN  FirstWord(s) \o Newlines(IF k >= 3 THEN 2 ELSE k) \o SecondWord(s)

\* Lines 119-123 change nothing of the words a and b of a text.
WordsLeftAlone(a, b) ==
    /\ Head(a) \notin Cosmetic
    /\ b[Len(b)] \notin Cosmetic
    /\ SpacePoints(a) = {}
    /\ SpacePoints(b) = {}

\* C13: for words a and b without whitespace that lines 119-123 leave alone
\* (a does not start and b does not end with one of '*-_', neither holds a
\* period before an upper-case letter or a comma before a letter), the text
\* a + k newlines + b becomes a + two newlines + b for every k >= 3 and is
\* returned unchanged for k = 1 and k = 2.
C13_BlankLines ==
    (Cleaned /\ TwoWords(raw) /\ WordsLeftAlone(FirstWord(raw), SecondWord(raw)))
        => res = Collapsed(raw)

C13_Witness ==
    /\ Cleaned
    /\ raw = <<"a", ".", "\n", "\n", "\n", "\n", "B">>
    /\ res = <<"a", ".", "\n", "\n", "B">>

\* C13 as stated: for all words a and b without whitespace.
C13_AsStated ==
    (Cleaned /\ TwoWords(raw)) => res = Collapsed(raw)


\* s is a text: a sequence of characters of the input, or spaces.
IsText(s) ==
    /\ DOMAIN s = 1 .. Len(s)
    /\ \A i \in 1 .. Len(s) : s[i] \in {raw[k] : k \in 1 .. Len(raw)} \cup {" "}

\* Every character of s is whitespace; the empty text included.
Blank(s) == \A i \in 1 .. Len(s) : s[i] \in Whitespace

\* C14: _clean_response_text is total: what a call on a text returns is a
\* text, whatever the text; it is the empty text for the empty text and for
\* a text of whitespace only.
C14_Total ==
    Cleaned => /\ IsText(res)
               /\ Blank(raw) => res = <<>>

C14_Witness ==
    /\ Cleaned
    /\ raw = <<" ", "\n", "\n", "\n">>
    /\ res = <<>>


----------------------------------------------------------------------------
(* _parse_outline_lines, services/gemini.py lines 63-80. *)

Digits == {"0", "1", "2", "3", "4", "5", "6", "7", "8", "9"}

\* The characters of the argument of lstrip on line 77, as the file holds
\* them: '-', '*', U+00E2, U+20AC, U+00A2, the digits, '.', space and tab.
OutlinePrefixChars ==
    {"-", "*", "U+00E2", "U+20AC", "U+00A2", ".", " ", "\t"} \cup Digits

\* Where str.splitlines() breaks a text ("\r\n" counts as one break).
LineBreaks == {"\n", "\r", "\f", "U+000B", "U+001C", "U+001D", "U+001E",
               "U+0085", "U+2028", "U+2029"}

\* raw_outline.splitlines(): the lines without their breaks; a break at the
\* end of the text opens no further line.
RECURSIVE SplitLines(_)
SplitLines(s) ==
    LET i == Find(s, LineBreaks)
    IN  IF s = <<>> THEN <<>>
        ELSE IF i = 0 THEN <<s>>
        ELSE LET n == IF s[i] = "\r" /\ i < Len(s) /\ s[i + 1] = "\n"
                      THEN 2 ELSE 1
             IN  <<SubSeq(s, 1, i - 1)>> \o SplitLines(SubSeq(s, i + n, Len(s)))

\* A variant of line 79 that skips an item the list already holds.
ListAppendOnce(lines, cleaned) ==
    IF \E j \in 1 .. Len(lines) : lines[j] = cleaned THEN lines
    ELSE Append(lines, cleaned)

\* line 79: lines.append(cleaned)
ListAppend(lines, cleaned) == Append(lines, cleaned)

MaxOutlineLen == 4

\* A letter, a digit, a period, a dash, a space, a newline, the bullet
\* U+2022 and U+00E2.
OutlineChars == {"a", "1", ".", "-", " ", "\n", "U+2022", "U+00E2"}

\* "1. First\n- Second\n\n* Third" and the bullet U+2022 before " X".
ExampleOutlines ==
    {<<"1", ".", " ", "F", "i", "r", "s", "t", "\n",
     "-", " ", "S", "e", "c", "o", "n", "d", "\n", "\n",
     "*", " ", "T", "h", "i", "r", "d">>,
     <<"U+2022", " ", "X">>}

OutlineInputs == Texts(OutlineChars, MaxOutlineLen) \cup ExampleOutlines

\* line 71-72: lines = [], and the loop is about to take the first line.
OutlineInit ==
    /\ EchoInit
    /\ ServiceIdle
    /\ fn = "_parse_outline_lines"
    /\ raw \in OutlineInputs
    /\ todo = SplitLines(raw)
    /\ res = <<>>
    /\ passes = 0

Looping == fn = "_parse_outline_lines" /\ passes = 0 /\ todo # <<>>

\* lines 73-75: the line is empty once stripped; continue.
OutlineSkipBlank ==
    /\ Looping
    /\ Strip(Head(todo)) = <<>>
    /\ todo' = Tail(todo)
    /\ UNCHANGED <<fn, raw, res, passes>>
    /\ UNCHANGED <<echoVars, serviceVars>>

\* lines 73-79: the line keeps something after lstrip; it is appended.
OutlineAppend ==
    /\ Looping
    /\ Strip(Head(todo)) # <<>>
    /\ LET cleaned == LStripChars(Strip(Head(todo)), OutlinePrefixChars)
       IN  /\ cleaned # <<>>
           /\ res' = ListAppend(res, cleaned)
    /\ todo' = Tail(todo)
    /\ UNCHANGED <<fn, raw, passes>>
    /\ UNCHANGED <<echoVars, serviceVars>>

\* lines 73-78: lstrip leaves nothing of the line; nothing is appended.
OutlineDrop ==
    /\ Looping
    /\ Strip(Head(todo)) # <<>>
    /\ LStripChars(Strip(Head(todo)), OutlinePrefixChars) = <<>>
    /\ todo' = Tail(todo)
    /\ UNCHANGED <<fn, raw, res, passes>>
    /\ UNCHANGED <<echoVars, serviceVars>>

\* line 80: return lines
OutlineReturn ==
    /\ fn = "_parse_outline_lines"
    /\ passes = 0
    /\ todo = <<>>
    /\ passes' = 1
    /\ UNCHANGED <<fn, raw, res, todo>>
    /\ UNCHANGED <<echoVars, serviceVars>>

NextOutline == OutlineSkipBlank \/ OutlineAppend \/ OutlineDrop \/ OutlineReturn

SpecOutline == OutlineInit /\ [][NextOutline]_vars


----------------------------------------------------------------------------
(* Claims about _parse_outline_lines. *)

Returned == fn = "_parse_outline_lines" /\ passes = 1

\* The prefix characters of the documented contract: '-', '*', the bullet
\* U+2022, the digits, '.', space and tab.
BulletPrefixChars == {"-", "*", "U+2022", ".", " ", "\t"} \cup Digits

NonEmpty(s) == s # <<>>

\* Every line of s, trimmed and without its leading run of characters of
\* chars, the ones nothing is left of omitted.
ItemsWithout(s, chars) ==
    LET lines == SplitLines(s)
    IN  SelectSeq([i \in 1 .. Len(lines) |-> LStripChars(Strip(lines[i]), chars)],
                  NonEmpty)

\* C15: for every non-blank line the function emits the trimmed line without
\* its whole leading run of '-', '*', bullet U+2022, digits, '.', space and
\* tab, so that "1. ", "- ", "* " and the bullet prefix are all stripped.
C15_PrefixStripped ==
    Returned => res = ItemsWithout(raw, BulletPrefixChars)


\* item is what is left of line after some characters at its front are gone.
IsSuffix(item, line) ==
    /\ Len(item) <= Len(line)
    /\ SubSeq(line, Len(line) - Len(item) + 1, Len(line)) = item

\* The j-th smallest member of the set S of numbers.
Nth(S, j) == CHOOSE i \in S : Cardinality({k \in S : k < i}) = j - 1

\* The numbers of the lines of s that are not blank.
NonBlankLines(s) ==
    {i \in 1 .. Len(SplitLines(s)) : Strip(SplitLines(s)[i]) # <<>>}

\* C16: the items returned come from non-blank lines of the input, one item
\* per line taken, in the order of the lines; of two identical lines both or
\* neither give an item; there are at most as many items as non-blank lines.
C16_Order ==
    Returned =>
        LET lines == SplitLines(raw)
            nonblank == NonBlankLines(raw)
        IN  /\ Len(res) <= Cardinality(nonblank)
            /\ \E S \in SUBSET nonblank :
                  /\ Cardinality(S) = Len(res)
                  /\ \A j \in 1 .. Len(res) :
                        IsSuffix(res[j], Strip(lines[Nth(S, j)]))
                  /\ \A i \in nonblank, k \in nonblank :
                        lines[i] = lines[k] => (i \in S <=> k \in S)

C16_Witness ==
    /\ Returned
    /\ raw = <<"a", "\n", "a">>
    /\ res = <<<<"a">>, <<"a">>>>


\* Every line of s holds prefix characters of the documented contract only;
\* the empty text and a text of whitespace included.
OnlyPrefix(s) ==
    \A i \in 1 .. Len(s) : s[i] \in BulletPrefixChars \cup Whitespace \cup LineBreaks

\* C17: every item returned is a non-empty string, and the empty list is
\* returned for the empty string, for whitespace only, and for an input whose
\* every line holds prefix characters only ('-', '*', bullet U+2022, digits,
\* '.', space, tab).
C17_NonEmptyItems ==
    Returned =>
        /\ \A j \in 1 .. Len(res) : res[j] # <<>>
        /\ OnlyPrefix(raw) => res = <<>>


----------------------------------------------------------------------------
(* The services send_chat_message (services/chatbot.py lines 128-207) and
   generate_lesson_outline (services/gemini.py lines 83-132), and their
   routes.  The texts they build are sequences of characters.              *)

\* "Message must not be empty."
MessageEmptyText ==
    <<"M", "e", "s", "s", "a", "g", "e", " ", "m", "u", "s", "t", " ", "n",
      "o", "t", " ", "b", "e", " ", "e", "m", "p", "t", "y", ".">>

\* "Topic must not be empty."
TopicEmptyText ==
    <<"T", "o", "p", "i", "c", " ", "m", "u", "s", "t", " ", "n", "o", "t",
      " ", "b", "e", " ", "e", "m", "p", "t", "y", ".">>

\* "GEMINI_API_KEY is not configured. Add it to backend/.env before calling
\* the service."
NotConfiguredText ==
    <<"G", "E", "M", "I", "N", "I", "_", "A", "P", "I", "_", "K", "E", "Y",
      " ", "i", "s", " ", "n", "o", "t", " ", "c", "o", "n", "f", "i", "g",
      "u", "r", "e", "d", ".", " ", "A", "d", "d", " ", "i", "t", " ", "t",
      "o", " ", "b", "a", "c", "k", "e", "n", "d", "/", ".", "e", "n", "v",
      " ", "b", "e", "f", "o", "r", "e", " ", "c", "a", "l", "l", "i", "n",
      "g", " ", "t", "h", "e", " ", "s", "e", "r", "v", "i", "c", "e", ".">>

\* "Failed to generate chatbot response"
FailedChatText ==
    <<"F", "a", "i", "l", "e", "d", " ", "t", "o", " ", "g", "e", "n", "e",
      "r", "a", "t", "e", " ", "c", "h", "a", "t", "b", "o", "t", " ", "r",
      "e", "s", "p", "o", "n", "s", "e">>

\* "Failed to generate lesson outline"
FailedOutlineText ==
    <<"F", "a", "i", "l", "e", "d", " ", "t", "o", " ", "g", "e", "n", "e",
      "r", "a", "t", "e", " ", "l", "e", "s", "s", "o", "n", " ", "o", "u",
      "t", "l", "i", "n", "e">>

\* "I apologize, but I couldn't generate a response. Please try again."
ApologyText ==
    <<"I", " ", "a", "p", "o", "l", "o", "g", "i", "z", "e", ",", " ", "b",
      "u", "t", " ", "I", " ", "c", "o", "u", "l", "d", "n", "'", "t", " ",
      "g", "e", "n", "e", "r", "a", "t", "e", " ", "a", " ", "r", "e", "s",
      "p", "o", "n", "s", "e", ".", " ", "P", "l", "e", "a", "s", "e", " ",
      "t", "r", "y", " ", "a", "g", "a", "i", "n", ".">>

\* "RuntimeError"
RuntimeErrorText ==
    <<"R", "u", "n", "t", "i", "m", "e", "E", "r", "r", "o", "r">>

\* "ValueError"
ValueErrorText ==
    <<"V", "a", "l", "u", "e", "E", "r", "r", "o", "r">>

\* The classes of exception a model call raises here, and
\* exc.__class__.__name__ of each.
ExcClasses == {"RuntimeError", "ValueError"}

ClassName(class) ==
    IF class = "RuntimeError" THEN RuntimeErrorText ELSE ValueErrorText

\* The class of error each service raises: ChatbotServiceError,
\* GeminiServiceError.
ServiceError(service) ==
    IF service = "send_chat_message" THEN "ChatbotServiceError"
    ELSE "GeminiServiceError"

EmptyInputText(service) ==
    IF service = "send_chat_message" THEN MessageEmptyText ELSE TopicEmptyText

FailedText(service) ==
    IF service = "send_chat_message" THEN FailedChatText ELSE FailedOutlineText

Raised(class, text) == [kind |-> "raise", class |-> class, text |-> text]

Returns(value) == [kind |-> "return", value |-> value]

NoResult == [kind |-> "none"]

\* _parse_outline_lines(raw_outline) as one value: what its loop returns.
_parse_outline_lines(raw_outline) == ItemsWithout(raw_outline, OutlinePrefixChars)

MaxInputLen == 1

MaxModelTextLen == 2

MaxExcLen == 1

MaxServiceCalls == 3

\* The message or topic of a call.
ServiceInputs == Texts({"a", " ", "U+001F"}, MaxInputLen)

\* os.environ["GEMINI_API_KEY"]: unset (or empty), or a key.
Keys == {<<>>, <<"k">>, <<"j">>}

\* What generate_content does: a response with a text, or an exception of a
\* class with a text.
ModelTexts == Texts({"a", " ", "*", "\n"}, MaxModelTextLen)

ExcTexts == Texts({"b", " "}, MaxExcLen)

Replies ==
    {[kind |-> "text", text |-> t] : t \in ModelTexts}
        \cup {[kind |-> "raise", class |-> c, text |-> t] :
                c \in ExcClasses, t \in ExcTexts}


\* line 104 (gemini.py) / line 154 (chatbot.py) with the text not stripped.
EmptyUnstripped(text) == text = <<>>

\* normalized = text.strip(); not normalized
EmptyInput(text) == Strip(text) = <<>>

\* A variant of the except clause that does not strip str(exc).
DetailUnstripped(exc) ==
    <<":", " ">> \o (IF exc.text # <<>> THEN exc.text ELSE ClassName(exc.class))

\* The except clause: raw_message = str(exc).strip(); detail is ": " and
\* raw_message, or ": " and the name of the class when raw_message is empty.
Detail(exc) ==
    LET raw_message == Strip(exc.text)
    IN  <<":", " ">> \o (IF raw_message # <<>> THEN raw_message
                         ELSE ClassName(exc.class))

\* What each service returns when the model call gave a text.
Result(service, input, text) ==
    LET stripped == Strip(text)
    IN  IF service = "send_chat_message"
        THEN [role |-> "assistant",
              content |-> IF stripped = <<>> THEN ApologyText
                          ELSE _clean_response_text(stripped)]
        ELSE [topic |-> Strip(input),
              outline |-> IF stripped # <<>> THEN _parse_outline_lines(stripped)
                          ELSE <<>>]

\* What strip_whitespace of a pydantic constr removes: the characters of the
\* Unicode property White_Space, which U+001C to U+001F do not have.
ConstrWhitespace == Whitespace \ {"U+001C", "U+001D", "U+001E", "U+001F"}

\* A value a field constr(strip_whitespace=True, min_length=1) can hold.
ValidPayload(text) ==
    /\ text # <<>>
    /\ StripChars(text, ConstrWhitespace) = text

\* A variant of the routes with the second except clause only.
RouteResponseOnly503(service, result) ==
    IF result.kind = "raise" THEN [status |-> 503, detail |-> result.text]
    ELSE [status |-> 200, body |-> result.value]

\* The routes lesson_outline and chat_message: ValueError gives 422, the
\* service's own error 503, each with str(exc) as detail.
RouteResponse(service, result) ==
    IF result.kind = "raise" /\ result.class = "ValueError"
    THEN [status |-> 422, detail |-> result.text]
    ELSE IF result.kind = "raise" /\ result.class = ServiceError(service)
    THEN [status |-> 503, detail |-> result.text]
    ELSE [status |-> 200, body |-> result.value]

\* A call of a service starts.
Enter(service, input, key) ==
    /\ fn' = service
    /\ raw' = input
    /\ GEMINI_API_KEY' = key
    /\ res' = NoResult
    /\ stage' = "validate"
    /\ effects' = <<>>
    /\ reply' = NoReply
    /\ http' = NoResponse
    /\ UNCHANGED <<passes, todo, cache, asked, configured>>
    /\ UNCHANGED echoVars

ServiceInit ==
    /\ EchoInit
    /\ fn \in Services
    /\ raw \in ServiceInputs
    /\ res = NoResult
    /\ passes = 0
    /\ todo = <<>>
    /\ GEMINI_API_KEY \in Keys
    /\ cache = [s \in Services |-> <<>>]
    /\ stage = "validate"
    /\ effects = <<>>
    /\ reply = NoReply
    /\ http = NoResponse
    /\ ncalls = 1
    /\ asked = [s \in Services |-> <<>>]
    /\ configured = [s \in Services |-> <<>>]

\* chatbot.py 153-155, gemini.py 102-104: the input is empty once stripped.
RejectEmpty ==
    /\ stage = "validate"
    /\ EmptyInput(raw)
    /\ res' = Raised("ValueError", EmptyInputText(fn))
    /\ stage' = "raised"
    /\ UNCHANGED <<fn, raw, passes, todo>>
    /\ UNCHANGED <<GEMINI_API_KEY, cache, effects, reply, http, ncalls, asked, configured>>
    /\ UNCHANGED echoVars

\* chatbot.py 153-155, gemini.py 102-104: the input is not empty.
Accept ==
    /\ stage = "validate"
    /\ ~EmptyInput(raw)
    /\ stage' = "_require_api_key"
    /\ UNCHANGED textVars
    /\ UNCHANGED <<GEMINI_API_KEY, cache, effects, reply, http, ncalls, asked, configured>>
    /\ UNCHANGED echoVars

\* _require_api_key: os.getenv("GEMINI_API_KEY") gives nothing.
KeyMissing ==
    /\ stage = "_require_api_key"
    /\ GEMINI_API_KEY = <<>>
    /\ effects' = Append(effects, "os.getenv")
    /\ res' = Raised(ServiceError(fn), NotConfiguredText)
    /\ stage' = "raised"
    /\ UNCHANGED <<fn, raw, passes, todo>>
    /\ UNCHANGED <<GEMINI_API_KEY, cache, reply, http, ncalls, asked, configured>>
    /\ UNCHANGED echoVars

\* _require_api_key: os.getenv("GEMINI_API_KEY") gives a key.
KeyFound ==
    /\ stage = "_require_api_key"
    /\ GEMINI_API_KEY # <<>>
    /\ effects' = Append(effects, "os.getenv")
    /\ stage' = "_configure_client"
    /\ UNCHANGED textVars
    /\ UNCHANGED <<GEMINI_API_KEY, cache, reply, http, ncalls, asked, configured>>
    /\ UNCHANGED echoVars

\* _configure_client(api_key), not cached: genai.configure is called.
Configure ==
    /\ stage = "_configure_client"
    /\ cache[fn] # GEMINI_API_KEY
    /\ effects' = effects \o <<"_configure_client", "genai.configure">>
    /\ cache' = [cache EXCEPT ![fn] = GEMINI_API_KEY]
    /\ asked' = [asked EXCEPT ![fn] = Append(@, GEMINI_API_KEY)]
    /\ configured' = [configured EXCEPT ![fn] = Append(@, GEMINI_API_KEY)]
    /\ stage' = "generate_content"
    /\ UNCHANGED textVars
    /\ UNCHANGED <<GEMINI_API_KEY, reply, http, ncalls>>
    /\ UNCHANGED echoVars

\* A variant of _configure_client without lru_cache: the body runs again.
ConfigureUncached ==
    /\ stage = "_configure_client"
    /\ cache[fn] = GEMINI_API_KEY
    /\ effects' = effects \o <<"_configure_client", "genai.configure">>
    /\ asked' = [asked EXCEPT ![fn] = Append(@, GEMINI_API_KEY)]
    /\ configured' = [configured EXCEPT ![fn] = Append(@, GEMINI_API_KEY)]
    /\ stage' = "generate_content"
    /\ UNCHANGED textVars
    /\ UNCHANGED <<GEMINI_API_KEY, cache, reply, http, ncalls>>
    /\ UNCHANGED echoVars

\* _configure_client(api_key), cached by lru_cache: the body does not run.
ConfigureCached ==
    /\ stage = "_configure_client"
    /\ cache[fn] = GEMINI_API_KEY
    /\ effects' = Append(effects, "_configure_client")
    /\ asked' = [asked EXCEPT ![fn] = Append(@, GEMINI_API_KEY)]
    /\ stage' = "generate_content"
    /\ UNCHANGED textVars
    /\ UNCHANGED <<GEMINI_API_KEY, cache, reply, http, ncalls, configured>>
    /\ UNCHANGED echoVars

\* The model call of the try block: it gives a text or raises.
GenerateContent ==
    /\ stage = "generate_content"
    /\ \E r \in Replies :
          /\ reply' = r
          /\ stage' = IF r.kind = "raise" THEN "except" ELSE "respond"
    /\ effects' = Append(effects, "generate_content")
    /\ UNCHANGED textVars
    /\ UNCHANGED <<GEMINI_API_KEY, cache, http, ncalls, asked, configured>>
    /\ UNCHANGED echoVars

\* chatbot.py 188-194 and 207, gemini.py 119 and 131-132: the service returns.
Respond ==
    /\ stage = "respond"
    /\ res' = Returns(Result(fn, raw, reply.text))
    /\ stage' = "returned"
    /\ UNCHANGED <<fn, raw, passes, todo>>
    /\ UNCHANGED <<GEMINI_API_KEY, cache, effects, reply, http, ncalls, asked, configured>>
    /\ UNCHANGED echoVars

\* chatbot.py 196-205, gemini.py 120-129: except Exception as exc.
Except ==
    /\ stage = "except"
    /\ res' = Raised(ServiceError(fn), FailedText(fn) \o Detail(reply) \o <<".">>)
    /\ stage' = "raised"
    /\ UNCHANGED <<fn, raw, passes, todo>>
    /\ UNCHANGED <<GEMINI_API_KEY, cache, effects, reply, http, ncalls, asked, configured>>
    /\ UNCHANGED echoVars

\* The route that called the service answers; it called it with the field of
\* its payload, a constr with strip_whitespace and min_length=1.
Route ==
    /\ stage \in {"raised", "returned"}
    /\ ValidPayload(raw)
    /\ http' = RouteResponse(fn, res)
    /\ stage' = "answered"
    /\ UNCHANGED textVars
    /\ UNCHANGED <<GEMINI_API_KEY, cache, effects, reply, ncalls, asked, configured>>
    /\ UNCHANGED echoVars

\* Another call of a service, in the same process.
NextCall ==
    /\ stage \in {"raised", "returned", "answered"}
    /\ ncalls < MaxServiceCalls
    /\ ncalls' = ncalls + 1
    /\ \E s \in Services, m \in ServiceInputs, k \in Keys : Enter(s, m, k)

NextService ==
    \/ RejectEmpty
    \/ Accept
    \/ KeyMissing
    \/ KeyFound
    \/ Configure
    \/ ConfigureCached
    \/ GenerateContent
    \/ Respond
    \/ Except
    \/ Route
    \/ NextCall

SpecService == ServiceInit /\ [][NextService]_vars


----------------------------------------------------------------------------
(* Claims about the services and their routes. *)

\* " must not be empty."
MustNotBeEmptyText ==
    <<" ", "m", "u", "s", "t", " ", "n", "o", "t", " ", "b", "e",
      " ", "e", "m", "p", "t", "y", ".">>

\* C18: both services reject an input that is empty once trimmed with a
\* ValueError whose text ends in "must not be empty.", and before anything
\* else: the call has read no API key, configured no client and called no
\* model, whether GEMINI_API_KEY is set or not.
C18_EmptyRejectedFirst ==
    (stage # "" /\ Blank(raw)) =>
        /\ effects = <<>>
        /\ reply = NoReply
        /\ stage \in {"validate", "raised", "answered"}
        /\ stage # "validate" =>
              /\ res.kind = "raise"
              /\ res.class = "ValueError"
              /\ IsSuffix(MustNotBeEmptyText, res.text)

\* A whitespace-only message is rejected with no API key in the environment.
C18_Witness ==
    /\ fn = "send_chat_message"
    /\ raw = <<" ">>
    /\ GEMINI_API_KEY = <<>>
    /\ stage = "raised"
    /\ res = Raised("ValueError", MessageEmptyText)


\* C19: whenever send_chat_message returns, the result has role 'assistant'
\* and a content that is not empty, whatever text the model gave: the apology
\* when that text is empty or whitespace only, the cleaned text otherwise.
C19_ContentNonEmpty ==
    (fn = "send_chat_message" /\ stage = "returned") =>
        /\ res.kind = "return"
        /\ res.value.role = "assistant"
        /\ res.value.content # <<>>
        /\ res.value.content =
              IF Blank(reply.text) THEN ApologyText
              ELSE _clean_response_text(reply.text)


\* The model call of generate_lesson_outline raised.
OutlineCallRaised ==
    /\ fn = "generate_lesson_outline"
    /\ reply.kind = "raise"
    /\ stage \in {"raised", "answered"}

\* "Failed to generate lesson outline: <detail>." for the exception raised:
\* its text trimmed, or the name of its class when nothing is left of it.
FailedOutlineMessage ==
    FailedOutlineText \o <<":", " ">>
        \o (IF Blank(reply.text) THEN ClassName(reply.class) ELSE Strip(reply.text))
        \o <<".">>

\* "Failed to generate lesson outline: RuntimeError."
FailedRuntimeErrorText ==
    <<"F", "a", "i", "l", "e", "d", " ", "t", "o", " ", "g", "e", "n", "e",
      "r", "a", "t", "e", " ", "l", "e", "s", "s", "o", "n", " ", "o", "u",
      "t", "l", "i", "n", "e", ":", " ", "R", "u", "n", "t", "i", "m", "e",
      "E", "r", "r", "o", "r", ".">>

\* C20: when the model call inside generate_lesson_outline raises, whatever
\* the exception, the service raises GeminiServiceError with the message
\* "Failed to generate lesson outline: <detail>.", <detail> being the trimmed
\* text of the exception or the name of its class when that is empty, and the
\* route lesson_outline answers 503 with exactly that message as detail.
C20_ModelFailure ==
    OutlineCallRaised =>
        /\ res = Raised("GeminiServiceError", FailedOutlineMessage)
        /\ stage = "answered" =>
              http = [status |-> 503, detail |-> FailedOutlineMessage]

\* The model raises RuntimeError() and the route has answered.
C20_Witness ==
    /\ OutlineCallRaised
    /\ reply = [kind |-> "raise", class |-> "RuntimeError", text |-> <<>>]
    /\ http = [status |-> 503, detail |-> FailedRuntimeErrorText]


ServiceFailed == stage = "answered" /\ res.kind = "raise"

----------------------------------------------------------------------------
(* Further claims about _clean_response_text. *)

\* C22: whatever the input, the result of _clean_response_text neither
\* begins nor ends with one of '*', '-', '_'.
C22_NoCosmeticEnds ==
    (Cleaned /\ res # <<>>) =>
        /\ res[1] \notin {"*", "-", "_"}
        /\ res[Len(res)] \notin {"*", "-", "_"}

C22_Witness ==
    /\ Cleaned
    /\ raw = <<"*", "_", "a", "*">>
    /\ res = <<"a">>


\* C29: whatever the input, the result of _clean_response_text holds no
\* three newlines in a row, also when the newlines of the input had only
\* spaces or tabs between them.
C29_NoTripleNewline ==
    Cleaned =>
        \A i \in 1 .. Len(res) - 2 :
            ~(res[i] = "\n" /\ res[i + 1] = "\n" /\ res[i + 2] = "\n")

\* C30: whatever the input, the result of _clean_response_text has no
\* whitespace at its front or at its end, also when the input starts or ends
\* with one of '*', '-', '_' next to whitespace.
C30_NoOuterWhitespace ==
    (Cleaned /\ res # <<>>) =>
        /\ res[1] \notin Whitespace
        /\ res[Len(res)] \notin Whitespace


----------------------------------------------------------------------------
(* _build_conversation_context, services/chatbot.py lines 62-84.  A message
   is a dict: a function from some of the keys "role" and "content".       *)

\* "User: "
UserLabel == <<"U", "s", "e", "r", ":", " ">>

\* "Assistant: "
AssistantLabel == <<"A", "s", "s", "i", "s", "t", "a", "n", "t", ":", " ">>

\* A variant of line 77 whose default is no role of the two.
RoleOrNone(msg) == IF "role" \in DOMAIN msg THEN msg.role ELSE "none"

\* line 77: role = msg.get("role", "user")
RoleOf(msg) == IF "role" \in DOMAIN msg THEN msg.role ELSE "user"

\* line 78: content = msg.get("content", "")
ContentOf(msg) == IF "content" \in DOMAIN msg THEN msg.content ELSE <<>>

MaxHistory == 3

HistoryRoles == {"user", "assistant", "system"}

\* An empty content, a one-line content and one that ends in a newline.
HistoryContents == {<<>>, <<"x">>, <<"y", "\n">>}

HistoryMessages ==
    {[role |-> r, content |-> c] : r \in HistoryRoles, c \in HistoryContents}
        \cup {[content |-> c] : c \in HistoryContents}
        \cup {[role |-> r] : r \in HistoryRoles}

Histories == UNION {[1 .. n -> HistoryMessages] : n \in 0 .. MaxHistory}

\* lines 73-76: the history is not empty; context_parts = [] and the loop is
\* about to take the first message.  res holds context_parts.
ContextInit ==
    /\ EchoInit
    /\ ServiceIdle
    /\ fn = "_build_conversation_context"
    /\ raw \in Histories
    /\ todo = raw
    /\ res = <<>>
    /\ passes = 0

Building == fn = "_build_conversation_context" /\ passes = 0

\* lines 73-74: if not history: return ""
ContextEmpty ==
    /\ Building
    /\ raw = <<>>
    /\ res' = <<>>
    /\ passes' = 1
    /\ UNCHANGED <<fn, raw, todo>>
    /\ UNCHANGED <<echoVars, serviceVars>>

\* lines 77-80: the role is "user".
ContextUser ==
    /\ Building
    /\ todo # <<>>
    /\ RoleOf(Head(todo)) = "user"
    /\ res' = Append(res, UserLabel \o ContentOf(Head(todo)))
    /\ todo' = Tail(todo)
    /\ UNCHANGED <<fn, raw, passes>>
    /\ UNCHANGED <<echoVars, serviceVars>>

\* lines 77-82: the role is "assistant".
ContextAssistant ==
    /\ Building
    /\ todo # <<>>
    /\ RoleOf(Head(todo)) = "assistant"
    /\ res' = Append(res, AssistantLabel \o ContentOf(Head(todo)))
    /\ todo' = Tail(todo)
    /\ UNCHANGED <<fn, raw, passes>>
    /\ UNCHANGED <<echoVars, serviceVars>>

\* lines 77-82: the role is neither; nothing is appended.
ContextOther ==
    /\ Building
    /\ todo # <<>>
    /\ RoleOf(Head(todo)) \notin {"user", "assistant"}
    /\ todo' = Tail(todo)
    /\ UNCHANGED <<fn, raw, res, passes>>
    /\ UNCHANGED <<echoVars, serviceVars>>

\* line 84: return "\n".join(context_parts)
ContextReturn ==
    /\ Building
    /\ raw # <<>>
    /\ todo = <<>>
    /\ res' = JoinNewline(res)
    /\ passes' = 1
    /\ UNCHANGED <<fn, raw, todo>>
    /\ UNCHANGED <<echoVars, serviceVars>>

NextContext ==
    \/ ContextEmpty
    \/ ContextUser
    \/ ContextAssistant
    \/ ContextOther
    \/ ContextReturn

SpecContext == ContextInit /\ [][NextContext]_vars


----------------------------------------------------------------------------
(* Claims about _build_conversation_context. *)

Built == fn = "_build_conversation_context" /\ passes = 1

\* The message counts as one of the user: its role is 'user' or it has none.
ByUser(msg) == "role" \notin DOMAIN msg \/ msg.role = "user"

ByAssistant(msg) == "role" \in DOMAIN msg /\ msg.role = "assistant"

\* The numbers of the messages of a history that give a line.
Speaking(history) ==
    {i \in 1 .. Len(history) : ByUser(history[i]) \/ ByAssistant(history[i])}

\* "User: <content>" or "Assistant: <content>", a missing content being empty.
LineOf(msg) ==
    (IF ByUser(msg) THEN UserLabel ELSE AssistantLabel)
        \o (IF "content" \in DOMAIN msg THEN msg.content ELSE <<>>)

\* The lines of the messages numbered in K, in increasing order, with one
\* newline between two of them.
RECURSIVE LinesOf(_, _)
LinesOf(history, K) ==
    IF K = {} THEN <<>>
    ELSE LET i == SetMin(K)
         IN  LineOf(history[i])
                 \o (IF K = {i} THEN <<>>
                     ELSE <<"\n">> \o LinesOf(history, K \ {i}))

\* C23: _build_conversation_context returns the empty string for the empty
\* history; otherwise one line "User: <content>" or "Assistant: <content>"
\* per message of role 'user' or 'assistant', a missing role counting as
\* 'user', in the order of the history, with single newlines between them,
\* and nothing for a message of another role.
C23_Context ==
    Built =>
        /\ raw = <<>> => res = <<>>
        /\ res = LinesOf(raw, Speaking(raw))

\* A message without role, one of role 'system' and one of the assistant.
C23_Witness ==
    /\ Built
    /\ raw = <<[content |-> <<"x">>],
               [role |-> "system", content |-> <<"x">>],
               [role |-> "assistant", content |-> <<"x">>]>>
    /\ res = <<"U", "s", "e", "r", ":", " ", "x", "\n",
               "A", "s", "s", "i", "s", "t", "a", "n", "t", ":", " ", "x">>


----------------------------------------------------------------------------
(* Claims about _configure_client. *)

\* The places of a sequence of keys where the key is not the one before it;
\* the first place is one.
KeyChanges(keys) ==
    {j \in 1 .. Len(keys) : j = 1 \/ keys[j] # keys[j - 1]}

----------------------------------------------------------------------------
(* Further claims about get_flaky_echo_payload. *)

\* C25: with a negative threshold, which the route passes on as it is, no
\* evaluation fails: every call succeeds with attempts = 1 and is answered
\* 200, and leaves the counter of its key at 0, as with threshold 0.
C25_NegativeThreshold ==
    (F <= 0 /\ done.n >= 1) =>
        /\ Succeeded
        /\ done.result.value.attempts = 1
        /\ done.response.status = 200
        /\ streak[done.pair] = 0
        /\ ~Evaluating(done.pair) => Attempts(done.pair) = 0

\* The second call of a key with threshold -1 has succeeded too.
C25_Witness ==
    /\ F = -1
    /\ done.n = 2
    /\ Succeeded
    /\ done.result.value.attempts = 1
    /\ Attempts(done.pair) = 0


----------------------------------------------------------------------------
(* The key of line 47, built for every client host and threshold up to a
   bound.                                                                  *)

MaxHostLen == 3

MaxKeyThreshold == 12

\* A letter, the separator, a digit and the minus sign.
HostChars == {"a", ":", "1", "-"}

RECURSIVE HostStrings(_)
HostStrings(n) ==
    IF n = 0 THEN {""}
    ELSE LET shorter == HostStrings(n - 1)
         IN  shorter \cup {h \o c : h \in shorter, c \in HostChars}

\* Thresholds of either sign, of one digit and of two.
KeyPairs == HostStrings(MaxHostLen) \X ((-2) .. MaxKeyThreshold)

\* get_flaky_echo_payload is entered with a client host and a threshold.
KeyInit ==
    /\ EchoInit
    /\ ServiceIdle
    /\ fn = "key"
    /\ raw \in KeyPairs
    /\ res = ""
    /\ passes = 0
    /\ todo = <<>>

\* line 47: key = f"{client_host}:{failures}"
BuildKey ==
    /\ fn = "key"
    /\ passes = 0
    /\ res' = KeyOf(raw[1], raw[2])
    /\ passes' = 1
    /\ UNCHANGED <<fn, raw, todo>>
    /\ UNCHANGED <<echoVars, serviceVars>>

NextKey == BuildKey

SpecKey == KeyInit /\ [][NextKey]_vars

\* C26: the key of line 47 is injective: no other pair of client host and
\* integer threshold has the key of this pair, also when the host holds
\* ':' or digits, so no two pairs share a counter.
C26_KeyInjective ==
    (fn = "key" /\ passes = 1) =>
        \A q \in KeyPairs : q # raw => KeyOf(q[1], q[2]) # res

\* The host "a:1" with threshold 2; ("a", 12) and ("a:1", 1) are among the
\* other pairs.
C26_Witness ==
    /\ fn = "key"
    /\ passes = 1
    /\ raw = <<"a:1", 2>>
    /\ res = "a:1:2"
    /\ <<"a", 12>> \in KeyPairs
    /\ <<"a:1", 1>> \in KeyPairs


----------------------------------------------------------------------------
\* C27: when worker threads interleave freely on one key, the attempts stored
\* for a key with threshold F >= 0 never exceed F, and every success reports
\* attempts <= F + 1.
C27_AttemptsBounded ==
    /\ \A p \in Pairs : p[2] >= 0 => Attempts(p) <= p[2]
    /\ (done.n >= 1 /\ F >= 0 /\ Succeeded) => done.result.value.attempts <= F + 1


----------------------------------------------------------------------------
(* Two callers of POST /flaky-echo that share one key and retry forever,   *)
(* their evaluations run one at a time.  The history variables are left    *)
(* alone: a behaviour has no last call.                                    *)

\* Largest threshold of the shared key.
MaxRetryFailures == 2

\* routers/echo.py:30-41 and services/echo.py:47: a caller sends its request
\* again, with the identity and threshold of the key the callers share.
RetryCall(t, client, message, failures) ==
    /\ pc[t] = "idle"
    /\ Alone(t)
    /\ failures > 0
    /\ LET key == KeyOf(ClientHost(client), failures) IN
        /\ \A k \in DOMAIN FLAKY_ATTEMPTS : k = key
        /\ frame' = [frame EXCEPT ![t] =
                        [IdleFrame EXCEPT !.message = message,
                                          !.client_host = ClientHost(client),
                                          !.failures = failures,
                                          !.key = key]]
    /\ pc' = [pc EXCEPT ![t] = "L48"]
    /\ UNCHANGED <<FLAKY_ATTEMPTS, heap, calls, count, streak, done, pre, raced>>
    /\ UNCHANGED <<textVars, serviceVars>>

\* services/echo.py:52 and routers/echo.py:42-43: the caller is answered 503.
RetryRaise(t) ==
    /\ pc[t] = "L52"
    /\ frame' = [frame EXCEPT ![t] = IdleFrame]
    /\ heap' = Collect(heap, FLAKY_ATTEMPTS, frame')
    /\ pc' = [pc EXCEPT ![t] = "idle"]
    /\ UNCHANGED <<FLAKY_ATTEMPTS, calls, count, streak, done, pre, raced>>
    /\ UNCHANGED <<textVars, serviceVars>>

\* services/echo.py:57 and routers/echo.py:41: the caller is answered 200.
RetryReturn(t) ==
    /\ pc[t] = "L57"
    /\ frame' = [frame EXCEPT ![t] = IdleFrame]
    /\ heap' = Collect(heap, FLAKY_ATTEMPTS, frame')
    /\ pc' = [pc EXCEPT ![t] = "idle"]
    /\ UNCHANGED <<FLAKY_ATTEMPTS, calls, count, streak, done, pre, raced>>
    /\ UNCHANGED <<textVars, serviceVars>>

\* A step of caller t: a request, or a statement of its evaluation.
Caller(t) ==
    \/ \E c \in Clients, m \in Messages, f \in 1 .. MaxRetryFailures :
          RetryCall(t, c, m, f)
    \/ Setdefault(t)
    \/ Compare(t)
    \/ Load(t)
    \/ Store(t)
    \/ RetryRaise(t)
    \/ ReadAttempts(t)
    \/ Reset(t)
    \/ RetryReturn(t)

NextRetry == \E t \in Threads : Caller(t)

\* Fair scheduling: a caller that can take a step again and again takes one.
SpecRetry == Init /\ [][NextRetry]_vars /\ \A t \in Threads : SF_vars(Caller(t))

\* The evaluation of caller t returns its payload.
Success(t) == pc[t] = "L57"

\* C28: when two callers share one key with threshold F > 0 and each retries
\* forever, evaluations run one at a time and scheduling is fair, the key
\* succeeds again and again: always, some caller receives a success later.
\* It need not be each caller.
C28_KeySucceedsAgain == []<>(\E t \in Threads : Success(t))

\* Caller w2 receives the success of the shared key "unknown:1", with
\* attempts = 2, after the failure of another evaluation.
C28_Witness ==
    /\ Success("w2")
    /\ pc["w1"] = "idle"
    /\ frame["w2"].key = "unknown:1"
    /\ frame["w2"].attempts = 2

\* C28 as stated: each of the two callers eventually receives a success.
C28_AsStated == \A t \in Threads : <>Success(t)

====
